---- MODULE Spec2Model ----
(***************************************************************************)
(* Model of jlc.py: the attempt runner (sign_in_account), the task client  *)
(* (JLCClient), the retry orchestrator (process_single_account and         *)
(* execute_final_retry_for_failed_accounts) and the summary in main.       *)
(*                                                                         *)
(* The browser and the HTTP API are the environment: every call into them  *)
(* draws its outcome with \E from the outcomes the call can have.          *)
(***************************************************************************)
EXTENDS Integers, Sequences, FiniteSets, TLC

(* ---- bounds of the model ---- *)
NumAccounts == 2

(* Balances the balance endpoint can report (0 is also the code's default). *)
BalanceValues == {100, 105}

(* integralVoucher is returned by get_points as it is: NotANumber stands   *)
(* for a value that is neither a number nor null (a string such as "105",  *)
(* a list, an object); no number of the model is negative                  *)
NotANumber == -1

IsNumber(v) == v # NotANumber

(* what a successful balance envelope with a data object can carry *)
BalanceReplies == BalanceValues \cup {NotANumber}

(* ---- program constants ---- *)
max_retries == 3
max_wait == 15
points_max_retries == 5
with_retry_max_retries == 5

(* ---- status strings (jindou_status / sign_status) ---- *)
UNKNOWN == "UNKNOWN"
ALREADY_SIGNED == "ALREADY_SIGNED"
NOT_SIGNED == "NOT_SIGNED"
CHECK_FAILED == "CHECK_FAILED"
SIGNED_SUCCESS == "SIGNED_SUCCESS"
REWARD_CLAIMED_SUCCESS == "REWARD_CLAIMED_SUCCESS"
REWARD_CLAIM_FAILED == "REWARD_CLAIM_FAILED"
SIGN_FAILED == "SIGN_FAILED"
TOKEN_EXTRACTION_FAILED == "TOKEN_EXTRACTION_FAILED"
LOGIN_FAILED == "LOGIN_FAILED"
REDIRECT_TIMEOUT == "REDIRECT_TIMEOUT"
PASSWORD_ERROR == "PASSWORD_ERROR"
EXCEPTION == "EXCEPTION"
NICK_UNKNOWN == "unknown"

(* ---- what send_request returns: None or response.json() as it is ---- *)
(* none: the request raised or the status is not 200 (None), or the body   *)
(*   is a falsy JSON value (null, false, 0, "", [], {});                   *)
(* nonobject: the body is a truthy JSON value that is not an object (a     *)
(*   non-empty list or string, a non-zero number, true);                   *)
(* the body is an object: fail: success falsy; nodata: success truthy, no  *)
(*   data key; nulldata: success truthy, data present and not an object    *)
(*   (null, a list, a string, a number); ok: success truthy, data an       *)
(*   object.                                                               *)
Envelopes == {"none", "nonobject", "fail", "nodata", "nulldata", "ok"}

(* data and data.get('success') is truthy *)
EnvelopeSuccess(e) == e \in {"nodata", "nulldata", "ok"}

(* data and data.get('success') raises AttributeError: data is truthy and  *)
(* has no get                                                              *)
EnvelopeRaises(e) == e = "nonobject"

(* data and data.get('success') is falsy: the else branch is taken *)
EnvelopeFailure(e) == ~EnvelopeSuccess(e) /\ ~EnvelopeRaises(e)

VARIABLES
    total_accounts, enable_failure_exit,
    phase, i, all_results,
    attempt, merged_result, merged_success,
    failed_accounts, k,
    rpc, path, driver, result, access_token, secretkey, polls, tries,
    initial_jindou, final_jindou, jindou_reward, sign_status, has_reward,
    jindou_success_count, total_jindou_reward, password_error_accounts,
    failed_list, jindou_rate, exit_code,
    started1, started2, pw_returned, sessions_open, escaped,
    pass1_eligible, first_success, session_owner,
    points_attempt, points_requests, points_refreshes, points_reply,
    calls, sign_reply, voucher_reply, task_outcome, info_reply, check_reply

inputVars == <<total_accounts, enable_failure_exit>>
mainVars == <<phase, i, all_results>>
accountVars == <<attempt, merged_result, merged_success>>
finalVars == <<failed_accounts, k>>
runnerVars == <<rpc, path, driver, result, access_token, secretkey, polls, tries>>
clientVars == <<initial_jindou, final_jindou, jindou_reward, sign_status, has_reward>>
summaryVars == <<jindou_success_count, total_jindou_reward, password_error_accounts,
                 failed_list, jindou_rate, exit_code>>
snapVars == <<pass1_eligible, first_success>>
historyVars == <<started1, started2, pw_returned, sessions_open, escaped, snapVars>>

(* the loop variable of get_points, and the trace of the call of           *)
(* execute_full_process in progress: the requests answered and the        *)
(* refreshes made so far in the get_points call in progress, the reply    *)
(* to its last request (until the next step has dealt with it), the       *)
(* sub-calls made, the replies to sign_in and to receive_voucher, how the  *)
(* call ended                                                             *)
taskVars == <<points_attempt, points_requests, points_refreshes, points_reply,
              calls, sign_reply, voucher_reply, task_outcome, info_reply,
              check_reply>>

vars == <<inputVars, mainVars, accountVars, finalVars, runnerVars, clientVars,
          summaryVars, historyVars, session_owner, taskVars>>

Accounts == 1..NumAccounts

(* The result dictionary built at the top of sign_in_account. *)
NewResult(account_index, retry_count, is_final_retry) ==
    [account_index |-> account_index,
     nickname |-> NICK_UNKNOWN,
     jindou_status |-> UNKNOWN,
     jindou_success |-> FALSE,
     initial_jindou |-> 0,
     final_jindou |-> 0,
     jindou_reward |-> 0,
     has_jindou_reward |-> FALSE,
     token_extracted |-> FALSE,
     secretkey_extracted |-> FALSE,
     retry_count |-> retry_count,
     is_final_retry |-> is_final_retry,
     password_error |-> FALSE]

(* The merged_result dictionary built at the top of process_single_account. *)
NewMergedResult(account_index) == NewResult(account_index, 0, FALSE)

NoResult == NewResult(0, 0, FALSE)
(* ------------------------------------------------------------------ *)
(* Arguments of the sign_in_account call in progress.                  *)
(* session_owner names the call whose webdriver.Chrome(...) created    *)
(* the session now open, NoCall when there is none.                    *)
(* ------------------------------------------------------------------ *)
ArgAccountIndex ==
    IF phase = "pass2" THEN failed_accounts[k].account_index ELSE i

ArgRetryCount ==
    IF phase = "pass2" THEN failed_accounts[k].previous_retry_count + 1 ELSE attempt

ArgIsFinalRetry == phase = "pass2"

ThisCall == <<ArgAccountIndex, ArgRetryCount>>

NoCall == <<0, 0>>

(* ------------------------------------------------------------------ *)
(* Exits of the try block of sign_in_account.                          *)
(* ------------------------------------------------------------------ *)
(* the fields JLCClient.__init__ sets *)
ClientReset ==
    /\ initial_jindou' = 0
    /\ final_jindou' = 0
    /\ jindou_reward' = 0
    /\ sign_status' = UNKNOWN
    /\ has_reward' = FALSE

(* return result inside the try: control goes to the finally clause *)
ReturnWith(r) ==
    /\ result' = r
    /\ rpc' = "finally"

(* except Exception: jindou_status is overwritten, then the finally clause *)
CaughtException ==
    /\ result' = [result EXCEPT !.jindou_status = EXCEPTION]
    /\ rpc' = "finally"

(* an exception raised outside the try block is caught nowhere up to the    *)
(* call of main: the interpreter ends the process with status 1            *)
UncaughtException ==
    /\ rpc' = "idle"
    /\ phase' = "crashed"
    /\ escaped' = TRUE
    /\ exit_code' = 1

(* webdriver.Chrome(...) *)
OpenSession ==
    /\ rpc = "open"
    /\ \E ok \in BOOLEAN :
         IF ok
         THEN /\ driver' = "open"
              /\ sessions_open' = sessions_open + 1
              /\ session_owner' = ThisCall
              /\ rpc' = "init"
              /\ UNCHANGED <<phase, escaped, exit_code>>
         ELSE /\ UncaughtException
              /\ UNCHANGED <<driver, sessions_open, session_owner>>
    /\ UNCHANGED <<inputVars, i, all_results, accountVars, finalVars, path, result,
                   access_token, secretkey, polls, tries, clientVars,
                   jindou_success_count, total_jindou_reward, password_error_accounts,
                   failed_list, jindou_rate, started1, started2, pw_returned, snapVars>>
    /\ UNCHANGED taskVars

(* driver.execute_script(...), WebDriverWait(driver, 25), result = {...} *)
InitScript ==
    /\ rpc = "init"
    /\ \E ok \in BOOLEAN :
         IF ok
         THEN /\ result' = NewResult(ArgAccountIndex, ArgRetryCount, ArgIsFinalRetry)
              /\ rpc' = "load"
              /\ UNCHANGED <<phase, escaped, exit_code>>
         ELSE /\ UncaughtException
              /\ UNCHANGED result
    /\ UNCHANGED <<inputVars, i, all_results, accountVars, finalVars, path, driver,
                   access_token, secretkey, polls, tries, clientVars,
                   jindou_success_count, total_jindou_reward, password_error_accounts,
                   failed_list, jindou_rate, started1, started2, pw_returned,
                   sessions_open, snapVars>>
    /\ UNCHANGED session_owner
    /\ UNCHANGED taskVars

(* driver.get(...), the wait for either domain, the login-page test; on the *)
(* logged-in branch navigate_and_interact_m_jlc, which swallows its errors  *)
LoadPage ==
    /\ rpc = "load"
    /\ \E o \in {"fault", "login", "active"} :
         CASE o = "fault" -> CaughtException /\ UNCHANGED <<path, tries>>
           [] o = "login" -> /\ rpc' = "fill"
                             /\ path' = "login"
                             /\ UNCHANGED <<result, tries>>
           [] o = "active" -> /\ rpc' = "tok"
                              /\ path' = "active"
                              /\ tries' = 0
                              /\ UNCHANGED result
    /\ UNCHANGED <<inputVars, mainVars, accountVars, finalVars, driver,
                   access_token, secretkey, polls, clientVars, summaryVars, historyVars>>
    /\ UNCHANGED session_owner
    /\ UNCHANGED taskVars

(* select account-login mode (failure tolerated), fill user name and password *)
FillCredentials ==
    /\ rpc = "fill"
    /\ \E found \in BOOLEAN :
         IF found
         THEN rpc' = "submit" /\ UNCHANGED result
         ELSE ReturnWith([result EXCEPT !.jindou_status = LOGIN_FAILED])
    /\ UNCHANGED <<inputVars, mainVars, accountVars, finalVars, path, driver,
                   access_token, secretkey, polls, tries, clientVars, summaryVars,
                   historyVars>>
    /\ UNCHANGED session_owner
    /\ UNCHANGED taskVars

(* click the submit button *)
SubmitLogin ==
    /\ rpc = "submit"
    /\ \E found \in BOOLEAN :
         IF found
         THEN rpc' = "check1" /\ UNCHANGED result
         ELSE ReturnWith([result EXCEPT !.jindou_status = LOGIN_FAILED])
    /\ UNCHANGED <<inputVars, mainVars, accountVars, finalVars, path, driver,
                   access_token, secretkey, polls, tries, clientVars, summaryVars,
                   historyVars>>
    /\ UNCHANGED session_owner
    /\ UNCHANGED taskVars

(* variant: the match sets the flag and leaves the status *)
PasswordErrorResult_FlagOnly(r) ==
    [r EXCEPT !.password_error = TRUE]

(* result['password_error'] = True, result['jindou_status'] = password error *)
PasswordErrorResult(r) ==
    [r EXCEPT !.password_error = TRUE, !.jindou_status = PASSWORD_ERROR]

(* check_password_error right after the submit click *)
CheckPasswordAfterSubmit ==
    /\ rpc = "check1"
    /\ \E match \in BOOLEAN :
         IF match
         THEN ReturnWith(PasswordErrorResult(result))
         ELSE rpc' = "challenge" /\ UNCHANGED result
    /\ UNCHANGED <<inputVars, mainVars, accountVars, finalVars, path, driver,
                   access_token, secretkey, polls, tries, clientVars, summaryVars,
                   historyVars>>
    /\ UNCHANGED session_owner
    /\ UNCHANGED taskVars
(* The slider block: the challenge is absent or fails (an exception caught by  *)
(* the inner except, then the check at the end of it), or the drag completes   *)
(* (check after the drag, then the 10 s wait for the target domain whose       *)
(* timeout is caught by the same except and followed by one more check).       *)
PasswordErrorAfterChallenge(o, match_after_drag, wait_ok, match_in_except) ==
    IF o = "completed"
    THEN match_after_drag \/ (~wait_ok /\ match_in_except)
    ELSE match_in_except

Challenge ==
    /\ rpc = "challenge"
    /\ \E o \in {"absent", "failed", "completed"},
          match_after_drag \in BOOLEAN, wait_ok \in BOOLEAN, match_in_except \in BOOLEAN :
         IF PasswordErrorAfterChallenge(o, match_after_drag, wait_ok, match_in_except)
         THEN ReturnWith(PasswordErrorResult(result)) /\ UNCHANGED polls
         ELSE /\ rpc' = "poll"
              /\ polls' = 0
              /\ UNCHANGED result
    /\ UNCHANGED <<inputVars, mainVars, accountVars, finalVars, path, driver,
                   access_token, secretkey, tries, clientVars, summaryVars,
                   historyVars>>
    /\ UNCHANGED session_owner
    /\ UNCHANGED taskVars

(* one iteration of the redirect loop: read current_url, test it, sleep;    *)
(* on the target domain navigate_and_interact_m_jlc runs before extraction *)
(* (polls is the loop index: it is not read once the loop is left)         *)
PollRedirect ==
    /\ rpc = "poll"
    /\ polls < max_wait
    /\ \E o \in {"fault", "target", "other"} :
         CASE o = "fault" -> CaughtException /\ polls' = 0 /\ UNCHANGED tries
           [] o = "target" -> /\ rpc' = "tok"
                              /\ tries' = 0
                              /\ polls' = 0
                              /\ UNCHANGED result
           [] o = "other" -> /\ polls' = polls + 1
                             /\ UNCHANGED <<rpc, result, tries>>
    /\ UNCHANGED <<inputVars, mainVars, accountVars, finalVars, path, driver,
                   access_token, secretkey, clientVars, summaryVars, historyVars>>
    /\ UNCHANGED session_owner
    /\ UNCHANGED taskVars

(* if not jumped: read driver.title, record the status, return *)
RedirectTimeout ==
    /\ rpc = "poll"
    /\ polls = max_wait
    /\ \E title_ok \in BOOLEAN :
         IF title_ok
         THEN ReturnWith([result EXCEPT !.jindou_status = REDIRECT_TIMEOUT])
         ELSE CaughtException
    /\ polls' = 0
    /\ UNCHANGED <<inputVars, mainVars, accountVars, finalVars, path, driver,
                   access_token, secretkey, tries, clientVars, summaryVars,
                   historyVars>>
    /\ UNCHANGED session_owner
    /\ UNCHANGED taskVars

(* one call of the function wrapped by with_retry: a value ends the lookup, *)
(* None or an exception sleeps and tries again until max_retries calls      *)
WithRetryDone(got, n) == got \/ n + 1 >= with_retry_max_retries

(* extract_token_from_local_storage(driver) *)
ExtractToken ==
    /\ rpc = "tok"
    /\ \E got \in BOOLEAN :
         IF WithRetryDone(got, tries)
         THEN /\ access_token' = got
              /\ rpc' = "sec"
              /\ tries' = 0
         ELSE /\ tries' = tries + 1
              /\ UNCHANGED <<access_token, rpc>>
    /\ UNCHANGED <<inputVars, mainVars, accountVars, finalVars, path, driver, result,
                   secretkey, polls, clientVars, summaryVars, historyVars>>
    /\ UNCHANGED session_owner
    /\ UNCHANGED taskVars

(* result['token_extracted'], result['secretkey_extracted'] *)
ExtractedResult(r, tok, sec) ==
    [r EXCEPT !.token_extracted = tok, !.secretkey_extracted = sec]

(* variant: only the token is required *)
CredentialsPresent_TokenOnly(tok, sec) == tok

(* if access_token and secretkey *)
CredentialsPresent(tok, sec) == tok /\ sec

(* what one call of extract_secretkey_from_devtools returns: None (also    *)
(* after its own except), the header value of the last m.jlc.com entry     *)
(* when that value is the empty string, or a non-empty header value        *)
SecretkeyValues == {"none", "empty", "value"}

(* bool(secretkey) *)
SecretkeyTruthy(v) == v = "value"

(* extract_secretkey_from_devtools(driver), then the branch on the two     *)
(* values: JLCClient(...) is built, or the extraction failure is recorded  *)
ExtractSecretkey ==
    /\ rpc = "sec"
    /\ \E v \in SecretkeyValues :
         LET got == SecretkeyTruthy(v) IN
         IF WithRetryDone(v # "none", tries)
         THEN /\ secretkey' = got
              /\ tries' = 0
              /\ IF CredentialsPresent(access_token, got)
                 THEN /\ result' = ExtractedResult(result, access_token, got)
                      /\ rpc' = "user_info"
                      /\ ClientReset
                 ELSE /\ ReturnWith([ExtractedResult(result, access_token, got)
                                       EXCEPT !.jindou_status = TOKEN_EXTRACTION_FAILED])
                      /\ UNCHANGED clientVars
         ELSE /\ tries' = tries + 1
              /\ UNCHANGED <<secretkey, rpc, result, clientVars>>
    /\ UNCHANGED <<inputVars, mainVars, accountVars, finalVars, path, driver,
                   access_token, polls, summaryVars, historyVars>>
    /\ UNCHANGED session_owner
    /\ UNCHANGED taskVars
(* ------------------------------------------------------------------ *)
(* JLCClient.execute_full_process, one action per sub-call.            *)
(* ------------------------------------------------------------------ *)

(* variant: a nickname is recorded with the task fields *)
RecordTask_WithNickname(r, success, st, ini, fin, rew, has) ==
    [r EXCEPT !.jindou_success = success,
              !.jindou_status = st,
              !.initial_jindou = ini,
              !.final_jindou = fin,
              !.jindou_reward = rew,
              !.has_jindou_reward = has,
              !.nickname = "nick"]

(* the six assignments after execute_full_process returns *)
RecordTask(r, success, st, ini, fin, rew, has) ==
    [r EXCEPT !.jindou_success = success,
              !.jindou_status = st,
              !.initial_jindou = ini,
              !.final_jindou = fin,
              !.jindou_reward = rew,
              !.has_jindou_reward = has]

(* execute_full_process returns: the result is recorded and the client dropped *)
TaskReturns(success, st, ini, fin, rew, has) ==
    /\ ReturnWith(RecordTask(result, success, st, ini, fin, rew, has))
    /\ ClientReset
    /\ task_outcome' = IF success THEN "true" ELSE "false"

(* an exception leaves execute_full_process: nothing of the client is recorded *)
TaskRaises ==
    /\ CaughtException
    /\ ClientReset
    /\ task_outcome' = "raised"

(* get_user_info: data and data.get('success')                             *)
(* (both call sites of execute_full_process continue alike: from here on  *)
(* path no longer tells them apart)                                       *)
(* InfoReply: what the reply was to get_user_info                         *)
InfoReply(e) ==
    CASE EnvelopeRaises(e) -> "nonobject"
      [] EnvelopeSuccess(e) -> "ok"
      [] OTHER -> "failed"

GetUserInfo ==
    /\ rpc = "user_info"
    /\ calls' = Append(calls, "get_user_info")
    /\ \E e \in Envelopes :
         /\ info_reply' = InfoReply(e)
         /\ CASE EnvelopeRaises(e) -> TaskRaises
              [] EnvelopeSuccess(e) ->
                   /\ rpc' = "points1"
                   /\ UNCHANGED <<result, clientVars, task_outcome>>
              [] OTHER ->
                   TaskReturns(FALSE, sign_status, initial_jindou, final_jindou,
                               jindou_reward, has_reward)
    /\ path' = "task"
    /\ UNCHANGED <<points_attempt, points_requests, points_refreshes, points_reply,
                   sign_reply, voucher_reply, check_reply>>
    /\ UNCHANGED <<inputVars, mainVars, accountVars, finalVars, driver,
                   access_token, secretkey, polls, tries, summaryVars, historyVars,
                   session_owner>>

(* get_points, one iteration of its loop per step. The reply e to the      *)
(* request of iteration att either ends the call (a successful envelope:   *)
(* data.get('data', {}).get('integralVoucher', 0) is returned, or raises    *)
(* when data is not an object; the last iteration failed: 0 is returned),  *)
(* raises in the test of the reply when the body is a truthy non-object,   *)
(* or is followed by the refresh and the next iteration.                    *)
PointsRaises(e) == EnvelopeRaises(e) \/ (EnvelopeSuccess(e) /\ e = "nulldata")

PointsReturns(e, att) == EnvelopeSuccess(e) \/ ~(att < points_max_retries - 1)

PointsValue(e, v) == IF EnvelopeSuccess(e) /\ e = "ok" THEN v ELSE 0

(* get_points is left: its loop variable and the counts of the requests    *)
(* answered and the refreshes made in this call are gone                    *)
PointsLoopLeft ==
    /\ points_attempt' = 0
    /\ points_requests' = 0
    /\ points_refreshes' = 0

(* what the reply was to get_points: no successful envelope, or its shape *)
PointsReply(e) == IF EnvelopeSuccess(e) \/ EnvelopeRaises(e) THEN e ELSE "failed"

(* self.initial_jindou = self.get_points(): the request of one iteration *)
GetPointsBefore ==
    /\ rpc = "points1"
    /\ calls' = IF points_attempt = 0 THEN Append(calls, "get_points") ELSE calls
    /\ \E e \in Envelopes : \E v \in (IF e = "ok" THEN BalanceReplies ELSE {0}) :
         /\ points_reply' = PointsReply(e)
         /\ CASE PointsRaises(e) ->
                   /\ TaskRaises
                   /\ PointsLoopLeft
              [] ~PointsRaises(e) /\ PointsReturns(e, points_attempt) ->
                   /\ initial_jindou' = PointsValue(e, v)
                   /\ rpc' = "check"
                   /\ PointsLoopLeft
                   /\ UNCHANGED <<result, final_jindou, jindou_reward, sign_status,
                                  has_reward, task_outcome>>
              [] OTHER ->
                   /\ rpc' = "refresh1"
                   /\ points_requests' = points_requests + 1
                   /\ UNCHANGED <<result, clientVars, points_attempt,
                                  points_refreshes, task_outcome>>
    /\ UNCHANGED <<sign_reply, voucher_reply, info_reply, check_reply>>
    /\ UNCHANGED <<inputVars, mainVars, accountVars, finalVars, path, driver,
                   access_token, secretkey, polls, tries, summaryVars, historyVars,
                   session_owner>>

(* the refresh before the next iteration of get_points: reload, interact,  *)
(* extract again and put what was found into the headers; whatever fails   *)
(* in it is swallowed (except: pass)                                       *)
RefreshSession ==
    /\ rpc \in {"refresh1", "refresh2"}
    /\ points_refreshes' = points_refreshes + 1
    /\ points_attempt' = points_attempt + 1
    /\ points_reply' = "unset"
    /\ rpc' = IF rpc = "refresh1" THEN "points1" ELSE "points2"
    /\ UNCHANGED <<points_requests, calls, sign_reply, voucher_reply, task_outcome,
                   info_reply, check_reply, result, clientVars>>
    /\ UNCHANGED <<inputVars, mainVars, accountVars, finalVars, path, driver,
                   access_token, secretkey, polls, tries, summaryVars, historyVars,
                   session_owner>>

(* what the reply was to check_sign_status: no successful envelope, data   *)
(* null, or a successful envelope with or without a truthy haveSignIn      *)
CheckReply(e, have_sign_in) ==
    CASE EnvelopeRaises(e) -> "nonobject"
      [] EnvelopeFailure(e) -> "failed"
      [] e = "nulldata" -> "nulldata"
      [] e = "ok" /\ have_sign_in -> "signed"
      [] OTHER -> "unsigned"

(* check_sign_status and the three-way branch on its value *)
CheckSignStatus ==
    /\ rpc = "check"
    /\ calls' = Append(calls, "check_sign_status")
    /\ points_reply' = "unset"
    /\ \E e \in Envelopes, have_sign_in \in BOOLEAN :
         /\ check_reply' = CheckReply(e, have_sign_in)
         /\ CASE EnvelopeFailure(e) ->
                   TaskReturns(FALSE, CHECK_FAILED, initial_jindou, final_jindou,
                               jindou_reward, has_reward)
              [] EnvelopeRaises(e) \/ e = "nulldata" -> TaskRaises
              [] e = "ok" /\ have_sign_in ->
                   /\ sign_status' = ALREADY_SIGNED
                   /\ rpc' = "points2"
                   /\ UNCHANGED <<result, initial_jindou, final_jindou,
                                  jindou_reward, has_reward, task_outcome>>
              [] OTHER ->
                   /\ sign_status' = NOT_SIGNED
                   /\ rpc' = "sign"
                   /\ UNCHANGED <<result, initial_jindou, final_jindou,
                                  jindou_reward, has_reward, task_outcome>>
    /\ UNCHANGED <<points_attempt, points_requests, points_refreshes, sign_reply,
                   voucher_reply, info_reply>>
    /\ UNCHANGED <<inputVars, mainVars, accountVars, finalVars, path, driver,
                   access_token, secretkey, polls, tries, summaryVars, historyVars,
                   session_owner>>
(* sign_in with the nested receive_voucher: e is the sign-in envelope,     *)
(* gain_nonzero whether data.gainNum is truthy, ve the voucher envelope    *)
SignInOutcome(e, gain_nonzero, ve) ==
    CASE EnvelopeFailure(e) ->
           [raises |-> FALSE, ok |-> FALSE, status |-> SIGN_FAILED, claimed |-> FALSE]
      [] EnvelopeRaises(e) \/ e = "nulldata" ->
           [raises |-> TRUE, ok |-> FALSE, status |-> NOT_SIGNED, claimed |-> FALSE]
      [] e = "ok" /\ gain_nonzero ->
           [raises |-> FALSE, ok |-> TRUE, status |-> SIGNED_SUCCESS, claimed |-> FALSE]
      [] OTHER ->
           CASE EnvelopeRaises(ve) ->
                  [raises |-> TRUE, ok |-> FALSE, status |-> NOT_SIGNED,
                   claimed |-> TRUE]
             [] EnvelopeSuccess(ve) ->
                  [raises |-> FALSE, ok |-> TRUE, status |-> REWARD_CLAIMED_SUCCESS,
                   claimed |-> TRUE]
             [] OTHER ->
                  [raises |-> FALSE, ok |-> FALSE, status |-> REWARD_CLAIM_FAILED,
                   claimed |-> TRUE]

(* what the reply was to sign_in: no successful envelope, data null, or a  *)
(* successful envelope with or without a truthy gainNum                    *)
SignReply(e, gain_nonzero) ==
    CASE EnvelopeRaises(e) -> "nonobject"
      [] EnvelopeFailure(e) -> "failed"
      [] e = "nulldata" -> "nulldata"
      [] e = "ok" /\ gain_nonzero -> "gain"
      [] OTHER -> "nogain"

(* what the reply was to receive_voucher, when it was called *)
VoucherReply(claimed, ve) ==
    IF ~claimed THEN "unset"
    ELSE IF EnvelopeRaises(ve) THEN "nonobject"
    ELSE IF EnvelopeSuccess(ve) THEN "ok" ELSE "failed"

SignIn ==
    /\ rpc = "sign"
    /\ \E e \in Envelopes, gain_nonzero \in BOOLEAN, ve \in Envelopes :
         LET o == SignInOutcome(e, gain_nonzero, ve) IN
         /\ sign_reply' = SignReply(e, gain_nonzero)
         /\ voucher_reply' = VoucherReply(o.claimed, ve)
         /\ UNCHANGED <<info_reply, check_reply>>
         /\ calls' = IF o.claimed
                     THEN calls \o <<"sign_in", "receive_voucher">>
                     ELSE Append(calls, "sign_in")
         /\ CASE o.raises -> TaskRaises
              [] ~o.raises /\ ~o.ok ->
                   TaskReturns(FALSE, o.status, initial_jindou, final_jindou,
                               jindou_reward, o.claimed)
              [] OTHER ->
                   /\ sign_status' = o.status
                   /\ has_reward' = o.claimed
                   /\ rpc' = "points2"
                   /\ UNCHANGED <<result, initial_jindou, final_jindou, jindou_reward,
                                  task_outcome>>
    /\ UNCHANGED <<points_attempt, points_requests, points_refreshes, points_reply>>
    /\ UNCHANGED <<inputVars, mainVars, accountVars, finalVars, path, driver,
                   access_token, secretkey, polls, tries, summaryVars, historyVars,
                   session_owner>>

(* calculate_jindou_difference: self.final_jindou - self.initial_jindou     *)
(* raises TypeError when an operand is not a number                         *)
DifferenceRaises(ini, fin) == ~IsNumber(ini) \/ ~IsNumber(fin)

CalculateJindouDifference(ini, fin) == fin - ini

(* self.final_jindou = self.get_points(), the request of one iteration;   *)
(* when the call returns: calculate_jindou_difference(), which raises or   *)
(* is followed by return True                                              *)
GetPointsAfter ==
    /\ rpc = "points2"
    /\ calls' = IF points_attempt = 0 THEN Append(calls, "get_points") ELSE calls
    /\ \E e \in Envelopes : \E v \in (IF e = "ok" THEN BalanceReplies ELSE {0}) :
         /\ points_reply' = PointsReply(e)
         /\ CASE PointsRaises(e) ->
                   /\ TaskRaises
                   /\ PointsLoopLeft
              [] /\ ~PointsRaises(e) /\ PointsReturns(e, points_attempt)
                 /\ DifferenceRaises(initial_jindou, PointsValue(e, v)) ->
                   /\ TaskRaises
                   /\ PointsLoopLeft
              [] /\ ~PointsRaises(e) /\ PointsReturns(e, points_attempt)
                 /\ ~DifferenceRaises(initial_jindou, PointsValue(e, v)) ->
                   /\ LET fin == PointsValue(e, v) IN
                      TaskReturns(TRUE, sign_status, initial_jindou, fin,
                                  CalculateJindouDifference(initial_jindou, fin),
                                  has_reward)
                   /\ PointsLoopLeft
              [] OTHER ->
                   /\ rpc' = "refresh2"
                   /\ points_requests' = points_requests + 1
                   /\ UNCHANGED <<result, clientVars, points_attempt,
                                  points_refreshes, task_outcome>>
    /\ UNCHANGED <<sign_reply, voucher_reply, info_reply, check_reply>>
    /\ UNCHANGED <<inputVars, mainVars, accountVars, finalVars, path, driver,
                   access_token, secretkey, polls, tries, summaryVars, historyVars,
                   session_owner>>

(* the trace of a finished call of execute_full_process is dropped *)
TaskTraceReset ==
    /\ points_attempt' = 0
    /\ points_requests' = 0
    /\ points_refreshes' = 0
    /\ points_reply' = "unset"
    /\ calls' = <<>>
    /\ sign_reply' = "unset"
    /\ voucher_reply' = "unset"
    /\ task_outcome' = "unset"
    /\ info_reply' = "unset"
    /\ check_reply' = "unset"

(* variant: the finally clause does not quit the driver *)
Teardown_NoQuit ==
    /\ rpc = "finally"
    /\ rpc' = "returned"
    /\ pw_returned' = [pw_returned EXCEPT ![result.account_index] =
                          @ \/ result.password_error]
    /\ first_success' = [first_success EXCEPT ![result.account_index] =
                            IF @ = NoResult /\ result.jindou_success THEN result ELSE @]
    /\ UNCHANGED <<inputVars, mainVars, accountVars, finalVars, path, result,
                   access_token, secretkey, polls, tries, clientVars, summaryVars,
                   started1, started2, escaped, pass1_eligible, driver,
                   sessions_open, session_owner>>
    /\ TaskTraceReset

(* finally: driver.quit(); then the function returns result               *)
(* (pw_returned and first_success record what the call returned)          *)
Teardown ==
    /\ rpc = "finally"
    /\ driver' = "closed"
    /\ sessions_open' = sessions_open - 1
    /\ session_owner' = NoCall
    /\ TaskTraceReset
    /\ rpc' = "returned"
    /\ pw_returned' = [pw_returned EXCEPT ![result.account_index] =
                          @ \/ result.password_error]
    /\ first_success' = [first_success EXCEPT ![result.account_index] =
                            IF @ = NoResult /\ result.jindou_success THEN result ELSE @]
    /\ UNCHANGED <<inputVars, mainVars, accountVars, finalVars, path, result,
                   access_token, secretkey, polls, tries, clientVars, summaryVars,
                   started1, started2, escaped, pass1_eligible>>
(* ------------------------------------------------------------------ *)
(* process_single_account                                              *)
(* ------------------------------------------------------------------ *)
(* variant: the success flag is not consulted *)
should_retry_IgnoreSuccess(ms, password_error) == ~password_error

should_retry(ms, password_error) == (~ms) /\ ~password_error

(* variant: the password-error branch leaves the status as it was *)
MergePasswordError_KeepStatus(mr) ==
    [mr EXCEPT !.password_error = TRUE,
               !.nickname = NICK_UNKNOWN]

(* the password-error branch of the loop body *)
MergePasswordError(mr) ==
    [mr EXCEPT !.password_error = TRUE,
               !.jindou_status = PASSWORD_ERROR,
               !.nickname = NICK_UNKNOWN]

(* variant: the status is not among the copied fields *)
CopySuccessFields_NoStatus(mr, r) ==
    [mr EXCEPT !.initial_jindou = r.initial_jindou,
               !.final_jindou = r.final_jindou,
               !.jindou_reward = r.jindou_reward,
               !.has_jindou_reward = r.has_jindou_reward]

(* the success fields copied from a successful attempt *)
CopySuccessFields(mr, r) ==
    [mr EXCEPT !.jindou_status = r.jindou_status,
               !.initial_jindou = r.initial_jindou,
               !.final_jindou = r.final_jindou,
               !.jindou_reward = r.jindou_reward,
               !.has_jindou_reward = r.has_jindou_reward]

(* variant: the two flags are those of the latest attempt *)
FillUnknown_Latest(mr, r) ==
    [mr EXCEPT !.nickname =
                   IF mr.nickname = NICK_UNKNOWN /\ r.nickname # NICK_UNKNOWN
                   THEN r.nickname ELSE @,
               !.token_extracted = r.token_extracted,
               !.secretkey_extracted = r.secretkey_extracted]

(* nickname, token_extracted, secretkey_extracted: filled while still unset *)
FillUnknown(mr, r) ==
    [mr EXCEPT !.nickname =
                   IF mr.nickname = NICK_UNKNOWN /\ r.nickname # NICK_UNKNOWN
                   THEN r.nickname ELSE @,
               !.token_extracted =
                   IF ~mr.token_extracted /\ r.token_extracted
                   THEN r.token_extracted ELSE @,
               !.secretkey_extracted =
                   IF ~mr.secretkey_extracted /\ r.secretkey_extracted
                   THEN r.secretkey_extracted ELSE @]

(* variant: the status of every attempt is copied *)
MergeAttempt_CopyStatus(mr, ms, r) ==
    IF r.password_error
    THEN [merged_result |-> MergePasswordError(mr), merged_success |-> ms]
    ELSE LET win == r.jindou_success /\ ~ms
             m1 == IF win THEN CopySuccessFields(mr, r)
                   ELSE [mr EXCEPT !.jindou_status = r.jindou_status]
             m2 == FillUnknown(m1, r)
         IN [merged_result |-> [m2 EXCEPT !.retry_count = r.retry_count],
             merged_success |-> (ms \/ win)]

(* one iteration of the loop after sign_in_account returned r: the new    *)
(* merged_result and merged_success['jindou']                             *)
MergeAttempt(mr, ms, r) ==
    IF r.password_error
    THEN [merged_result |-> MergePasswordError(mr), merged_success |-> ms]
    ELSE LET win == r.jindou_success /\ ~ms
             m1 == IF win THEN CopySuccessFields(mr, r) ELSE mr
             m2 == FillUnknown(m1, r)
         IN [merged_result |-> [m2 EXCEPT !.retry_count = r.retry_count],
             merged_success |-> (ms \/ win)]

(* variant: the attempt bound is off by one *)
LoopEnds_OneMore(m, r, att) ==
    \/ r.password_error
    \/ ~should_retry(m.merged_success, m.merged_result.password_error)
    \/ att > max_retries

(* whether the loop ends after this iteration *)
LoopEnds(m, r, att) ==
    \/ r.password_error
    \/ ~should_retry(m.merged_success, m.merged_result.password_error)
    \/ att >= max_retries

(* variant: the final assignment of jindou_success is missing *)
FinishMerged_Forget(m) == m.merged_result

(* merged_result['jindou_success'] = merged_success['jindou'] *)
FinishMerged(m) ==
    [m.merged_result EXCEPT !.jindou_success = m.merged_success]

(* the locals of a finished sign_in_account call are gone *)
RunnerReset ==
    /\ result' = NoResult
    /\ path' = "none"
    /\ driver' = "none"
    /\ access_token' = FALSE
    /\ secretkey' = FALSE
    /\ polls' = 0
    /\ tries' = 0

(* main: the next account of the loop; process_single_account up to its   *)
(* first call of sign_in_account                                          *)
StartAccount ==
    /\ phase = "pass1"
    /\ rpc = "idle"
    /\ i <= total_accounts
    /\ merged_result' = NewMergedResult(i)
    /\ merged_success' = FALSE
    /\ attempt' = 0
    /\ rpc' = "open"
    /\ started1' = [started1 EXCEPT ![i] = @ + 1]
    /\ UNCHANGED <<inputVars, mainVars, finalVars, path, driver, result, access_token,
                   secretkey, polls, tries, clientVars, summaryVars, started2,
                   pw_returned, sessions_open, escaped, snapVars>>
    /\ UNCHANGED session_owner
    /\ UNCHANGED taskVars

(* the loop body after sign_in_account returned: merge, then either the   *)
(* next attempt starts or the account is finished and appended in main    *)
MergePass1 ==
    /\ phase = "pass1"
    /\ rpc = "returned"
    /\ LET m == MergeAttempt(merged_result, merged_success, result) IN
       IF LoopEnds(m, result, attempt)
       THEN /\ all_results' = Append(all_results, FinishMerged(m))
            /\ i' = i + 1
            /\ merged_result' = NoResult
            /\ merged_success' = FALSE
            /\ attempt' = 0
            /\ rpc' = "idle"
            /\ UNCHANGED started1
       ELSE /\ merged_result' = m.merged_result
            /\ merged_success' = m.merged_success
            /\ attempt' = attempt + 1
            /\ rpc' = "open"
            /\ started1' = [started1 EXCEPT ![i] = @ + 1]
            /\ UNCHANGED <<all_results, i>>
    /\ RunnerReset
    /\ UNCHANGED <<inputVars, phase, finalVars, clientVars, summaryVars, started2,
                   pw_returned, sessions_open, escaped, snapVars>>
    /\ UNCHANGED session_owner
    /\ UNCHANGED taskVars
(* ------------------------------------------------------------------ *)
(* execute_final_retry_for_failed_accounts                             *)
(* ------------------------------------------------------------------ *)
(* variant: password-error accounts are retried too *)
NeedsFinalRetry_IgnorePasswordError(r) == ~r.jindou_success

(* variant: accounts that succeeded are retried too *)
NeedsFinalRetry_IgnoreSuccess(r) == ~r.password_error

(* the accounts the final retry is for *)
NeedsFinalRetry(r) == (~r.jindou_success) /\ ~r.password_error

RECURSIVE CollectFailed(_, _)
(* the list failed_accounts built from all_results, from position j on *)
CollectFailed(all, j) ==
    IF j > Len(all) THEN <<>>
    ELSE IF NeedsFinalRetry(all[j])
         THEN <<[index |-> j,
                 account_index |-> all[j].account_index,
                 previous_retry_count |-> all[j].retry_count]>>
              \o CollectFailed(all, j + 1)
         ELSE CollectFailed(all, j + 1)

(* variant: the final attempt is not counted *)
MergeFinal_KeepCount(orig, fr, previous_retry_count) ==
    IF fr.password_error
    THEN [MergePasswordError(orig) EXCEPT !.is_final_retry = TRUE]
    ELSE LET win == fr.jindou_success /\ ~orig.jindou_success
             m1 == IF win
                   THEN [CopySuccessFields(orig, fr) EXCEPT !.jindou_success = TRUE]
                   ELSE orig
             m2 == FillUnknown(m1, fr)
         IN [m2 EXCEPT !.is_final_retry = TRUE]

(* the update of original_result after the final attempt returned fr *)
MergeFinal(orig, fr, previous_retry_count) ==
    IF fr.password_error
    THEN [MergePasswordError(orig) EXCEPT !.is_final_retry = TRUE,
                                          !.retry_count = previous_retry_count + 1]
    ELSE LET win == fr.jindou_success /\ ~orig.jindou_success
             m1 == IF win
                   THEN [CopySuccessFields(orig, fr) EXCEPT !.jindou_success = TRUE]
                   ELSE orig
             m2 == FillUnknown(m1, fr)
         IN [m2 EXCEPT !.is_final_retry = TRUE,
                       !.retry_count = previous_retry_count + 1]

(* variant: the account loop is left before its last iteration *)
EndPass1_Early ==
    /\ phase = "pass1"
    /\ rpc = "idle"
    /\ i >= total_accounts
    /\ LET fa == CollectFailed(all_results, 1) IN
       /\ failed_accounts' = fa
       /\ k' = 1
       /\ phase' = IF fa = <<>> THEN "summary" ELSE "pass2"
    /\ pass1_eligible' = {a \in Accounts : \E j \in 1..Len(all_results) :
                              /\ all_results[j].account_index = a
                              /\ all_results[j].jindou_success = FALSE
                              /\ all_results[j].password_error = FALSE}
    /\ UNCHANGED <<inputVars, i, all_results, accountVars, runnerVars, clientVars,
                   summaryVars, started1, started2, pw_returned, sessions_open,
                   escaped, first_success>>
    /\ UNCHANGED session_owner
    /\ UNCHANGED taskVars

(* main after the account loop: has_failed_accounts, and the head of       *)
(* execute_final_retry_for_failed_accounts that builds failed_accounts     *)
EndPass1 ==
    /\ phase = "pass1"
    /\ rpc = "idle"
    /\ i > total_accounts
    /\ LET fa == CollectFailed(all_results, 1) IN
       /\ failed_accounts' = fa
       /\ k' = 1
       /\ phase' = IF fa = <<>> THEN "summary" ELSE "pass2"
    /\ pass1_eligible' = {a \in Accounts : \E j \in 1..Len(all_results) :
                              /\ all_results[j].account_index = a
                              /\ all_results[j].jindou_success = FALSE
                              /\ all_results[j].password_error = FALSE}
    /\ UNCHANGED <<inputVars, i, all_results, accountVars, runnerVars, clientVars,
                   summaryVars, started1, started2, pw_returned, sessions_open,
                   escaped, first_success>>
    /\ UNCHANGED session_owner
    /\ UNCHANGED taskVars

(* the next entry of failed_accounts: sign_in_account is called *)
StartFinalRetry ==
    /\ phase = "pass2"
    /\ rpc = "idle"
    /\ k <= Len(failed_accounts)
    /\ rpc' = "open"
    /\ started2' = [started2 EXCEPT ![failed_accounts[k].account_index] = @ + 1]
    /\ UNCHANGED <<inputVars, mainVars, accountVars, finalVars, path, driver, result,
                   access_token, secretkey, polls, tries, clientVars, summaryVars,
                   started1, pw_returned, sessions_open, escaped, snapVars>>
    /\ UNCHANGED session_owner
    /\ UNCHANGED taskVars

(* the loop body after the final attempt returned; after the last entry   *)
(* the function returns all_results to main                               *)
MergePass2 ==
    /\ phase = "pass2"
    /\ rpc = "returned"
    /\ LET fa == failed_accounts[k] IN
       all_results' = [all_results EXCEPT ![fa.index] =
                          MergeFinal(@, result, fa.previous_retry_count)]
    /\ k' = k + 1
    /\ phase' = IF k + 1 > Len(failed_accounts) THEN "summary" ELSE "pass2"
    /\ rpc' = "idle"
    /\ RunnerReset
    /\ UNCHANGED <<inputVars, i, accountVars, failed_accounts, clientVars,
                   summaryVars, historyVars>>
    /\ UNCHANGED session_owner
    /\ UNCHANGED taskVars
(* ------------------------------------------------------------------ *)
(* main: the summary and the exit status                               *)
(* ------------------------------------------------------------------ *)
SummaryStart ==
    [jindou_success_count |-> 0,
     total_jindou_reward |-> 0,
     password_error_accounts |-> <<>>,
     failed_accounts |-> <<>>]

(* variant: the failed list does not exclude password errors *)
SummaryStep_FailedWithPassword(acc, r) ==
    [jindou_success_count |-> acc.jindou_success_count,
     total_jindou_reward |->
         IF ~r.password_error /\ r.jindou_reward > 0
         THEN acc.total_jindou_reward + r.jindou_reward
         ELSE acc.total_jindou_reward,
     password_error_accounts |->
         IF r.password_error
         THEN Append(acc.password_error_accounts, r.account_index)
         ELSE acc.password_error_accounts,
     failed_accounts |->
         IF ~r.jindou_success
         THEN Append(acc.failed_accounts, r.account_index)
         ELSE acc.failed_accounts]

(* the body of the loop over all_results, for one result r *)
SummaryStep(acc, r) ==
    [jindou_success_count |-> acc.jindou_success_count,
     total_jindou_reward |->
         IF ~r.password_error /\ r.jindou_reward > 0
         THEN acc.total_jindou_reward + r.jindou_reward
         ELSE acc.total_jindou_reward,
     password_error_accounts |->
         IF r.password_error
         THEN Append(acc.password_error_accounts, r.account_index)
         ELSE acc.password_error_accounts,
     failed_accounts |->
         IF (~r.jindou_success) /\ ~r.password_error
         THEN Append(acc.failed_accounts, r.account_index)
         ELSE acc.failed_accounts]

RECURSIVE SummaryLoop(_, _, _)
SummaryLoop(acc, all, j) ==
    IF j > Len(all) THEN acc
    ELSE SummaryLoop(SummaryStep(acc, all[j]), all, j + 1)

(* jindou_rate = (count / total) * 100 if total > 0 else 0, kept as a fraction *)
SuccessRate(count, total) ==
    IF total > 0 THEN [num |-> count * 100, den |-> total]
    ELSE [num |-> 0, den |-> 1]

(* the exit status chosen at the end of main *)
ExitStatus(flag, failed, password_errors) ==
    IF flag /\ (failed \o password_errors) # <<>> THEN 1 ELSE 0

(* the summary loop and the overall statistics *)
Summarize ==
    /\ phase = "summary"
    /\ LET acc == SummaryLoop(SummaryStart, all_results, 1) IN
       /\ jindou_success_count' = acc.jindou_success_count
       /\ total_jindou_reward' = acc.total_jindou_reward
       /\ password_error_accounts' = acc.password_error_accounts
       /\ failed_list' = acc.failed_accounts
       /\ jindou_rate' = SuccessRate(acc.jindou_success_count, total_accounts)
    /\ phase' = "exit"
    /\ UNCHANGED <<inputVars, i, all_results, accountVars, finalVars, runnerVars,
                   clientVars, exit_code, historyVars>>
    /\ UNCHANGED session_owner
    /\ UNCHANGED taskVars

(* sys.exit(1) or sys.exit(0) *)
Exit ==
    /\ phase = "exit"
    /\ exit_code' = ExitStatus(enable_failure_exit, failed_list, password_error_accounts)
    /\ phase' = "done"
    /\ UNCHANGED <<inputVars, i, all_results, accountVars, finalVars, runnerVars,
                   clientVars, jindou_success_count, total_jindou_reward,
                   password_error_accounts, failed_list, jindou_rate, historyVars>>
    /\ UNCHANGED session_owner
    /\ UNCHANGED taskVars

(* ------------------------------------------------------------------ *)
(* The program                                                         *)
(* ------------------------------------------------------------------ *)
(* len(sys.argv) < 3 *)
ArgsTooFew(argc) == argc < 3

(* enable_failure_exit: False unless a fourth argument is given and its    *)
(* lower case is 'true'                                                    *)
FailureExitFlag(argc, third_is_true) == argc >= 4 /\ third_is_true

(* len(usernames) != len(passwords) *)
CountMismatch(num_usernames, num_passwords) == num_usernames # num_passwords

(* sys.exit(1) of the two argument checks *)
RejectArguments ==
    /\ phase' = "rejected"
    /\ exit_code' = 1

(* the head of main: argc is len(sys.argv) (4 stands for 4 or more),       *)
(* num_usernames and num_passwords the lengths of the two lists after the  *)
(* split and the removal of empty items, third_is_true whether             *)
(* sys.argv[3].lower() is 'true'                                           *)
ParseArgs ==
    /\ phase = "args"
    /\ \E argc \in 1..4, num_usernames \in 0..NumAccounts,
          num_passwords \in 0..NumAccounts, third_is_true \in BOOLEAN :
         IF ArgsTooFew(argc)
         THEN /\ RejectArguments
              /\ UNCHANGED <<total_accounts, enable_failure_exit>>
         ELSE /\ enable_failure_exit' = FailureExitFlag(argc, third_is_true)
              /\ IF CountMismatch(num_usernames, num_passwords)
                 THEN /\ RejectArguments
                      /\ UNCHANGED total_accounts
                 ELSE /\ total_accounts' = num_usernames
                      /\ phase' = "pass1"
                      /\ UNCHANGED exit_code
    /\ UNCHANGED <<i, all_results, accountVars, finalVars, runnerVars, clientVars,
                   jindou_success_count, total_jindou_reward,
                   password_error_accounts, failed_list, jindou_rate, historyVars>>
    /\ UNCHANGED session_owner
    /\ UNCHANGED taskVars

(* the state in which main is entered *)
Init ==
    /\ total_accounts = 0
    /\ enable_failure_exit = FALSE
    /\ phase = "args"
    /\ i = 1
    /\ all_results = <<>>
    /\ attempt = 0
    /\ merged_result = NoResult
    /\ merged_success = FALSE
    /\ failed_accounts = <<>>
    /\ k = 1
    /\ rpc = "idle"
    /\ path = "none"
    /\ driver = "none"
    /\ result = NoResult
    /\ access_token = FALSE
    /\ secretkey = FALSE
    /\ polls = 0
    /\ tries = 0
    /\ initial_jindou = 0
    /\ final_jindou = 0
    /\ jindou_reward = 0
    /\ sign_status = UNKNOWN
    /\ has_reward = FALSE
    /\ jindou_success_count = 0
    /\ total_jindou_reward = 0
    /\ password_error_accounts = <<>>
    /\ failed_list = <<>>
    /\ jindou_rate = [num |-> 0, den |-> 1]
    /\ exit_code = -1
    /\ started1 = [a \in Accounts |-> 0]
    /\ started2 = [a \in Accounts |-> 0]
    /\ pw_returned = [a \in Accounts |-> FALSE]
    /\ sessions_open = 0
    /\ escaped = FALSE
    /\ pass1_eligible = {}
    /\ first_success = [a \in Accounts |-> NoResult]
    /\ session_owner = NoCall
    /\ points_attempt = 0
    /\ points_requests = 0
    /\ points_refreshes = 0
    /\ points_reply = "unset"
    /\ calls = <<>>
    /\ sign_reply = "unset"
    /\ voucher_reply = "unset"
    /\ task_outcome = "unset"
    /\ info_reply = "unset"
    /\ check_reply = "unset"

Next ==
    \/ ParseArgs
    \/ StartAccount
    \/ OpenSession
    \/ InitScript
    \/ LoadPage
    \/ FillCredentials
    \/ SubmitLogin
    \/ CheckPasswordAfterSubmit
    \/ Challenge
    \/ PollRedirect
    \/ RedirectTimeout
    \/ ExtractToken
    \/ ExtractSecretkey
    \/ GetUserInfo
    \/ GetPointsBefore
    \/ RefreshSession
    \/ CheckSignStatus
    \/ SignIn
    \/ GetPointsAfter
    \/ Teardown
    \/ MergePass1
    \/ EndPass1
    \/ StartFinalRetry
    \/ MergePass2
    \/ Summarize
    \/ Exit

Spec == Init /\ [][Next]_vars
(* ------------------------------------------------------------------ *)
(* Properties                                                          *)
(* ------------------------------------------------------------------ *)
RunOver == phase \in {"summary", "exit", "done"}

Started(a) == started1[a] + started2[a]

(* C1: once an attempt of an account has returned password_error = True, no *)
(* further attempt is started for that account in pass 1 or pass 2, and the *)
(* account's final merged result has jindou_success = False.                *)
C1_NoAttemptAfterPasswordError ==
    /\ [][\A a \in Accounts :
            pw_returned[a] => /\ started1'[a] = started1[a]
                              /\ started2'[a] = started2[a]]_vars
    /\ [](RunOver =>
            \A j \in 1..Len(all_results) :
                pw_returned[all_results[j].account_index]
                    => all_results[j].jindou_success = FALSE)

(* a finished run in which account 1 hit the password error on its second   *)
(* attempt and account 2 went through the final retry                       *)
C1_Witness ==
    /\ phase = "done"
    /\ total_accounts = 2
    /\ pw_returned[1]
    /\ started1[1] = 2
    /\ started2[1] = 0
    /\ started2[2] = 1

(* C2: pass 2 starts an attempt only for an account whose merged result at  *)
(* the end of pass 1 has jindou_success = False and password_error = False; *)
(* when pass 2 is over each such account has had exactly one final attempt  *)
(* and every other account none.                                            *)
C2_FinalRetryOnlyForFailed ==
    /\ \A a \in Accounts :
          /\ started2[a] <= 1
          /\ started2[a] = 1 => a \in pass1_eligible
    /\ RunOver =>
          \A a \in Accounts :
              started2[a] = (IF a \in pass1_eligible THEN 1 ELSE 0)

(* a finished run where account 1 was retried in pass 2 and account 2, which *)
(* had succeeded in pass 1, was not                                         *)
C2_Witness ==
    /\ phase = "done"
    /\ Len(all_results) = 2
    /\ pass1_eligible = {1}
    /\ started2[1] = 1
    /\ started2[2] = 0
    /\ all_results[2].jindou_success

(* C3 as stated: sign_in_account is called at most 4 times for one account  *)
(* over both passes.                                                        *)
C3_AtMostFourAttempts ==
    \A a \in Accounts : Started(a) <= 4

(* C3 amended: sign_in_account is called at most 5 times for one account    *)
(* over both passes: at most 4 times in pass 1 and at most once in pass 2.  *)
C3_AtMostFiveAttempts ==
    \A a \in Accounts :
        /\ started1[a] <= 4
        /\ started2[a] <= 1
        /\ Started(a) <= 5

(* the fifth attempt of an account is running *)
C3_Witness ==
    \E a \in Accounts : started1[a] = 4 /\ started2[a] = 1 /\ rpc = "load"

(* C4: in pass 1 an account gets at most 4 attempts, numbered 0, 1, 2, 3 in *)
(* order; after an attempt has returned, the next one is started if and     *)
(* only if the attempt did not succeed, reported no password error and its  *)
(* number is below 3, whatever its status.                                  *)
C4_Pass1RetryRule ==
    /\ [](\A a \in Accounts : started1[a] <= 4)
    /\ [](phase = "pass1" /\ rpc # "idle" =>
            /\ attempt = started1[i] - 1
            /\ attempt \in 0..3
            /\ (rpc \notin {"open", "init"} => result.retry_count = attempt))
    /\ [][phase = "pass1" /\ rpc = "returned" =>
            ((started1'[i] = started1[i] + 1 /\ attempt' = attempt + 1)
                <=> (/\ ~result.jindou_success
                     /\ ~result.password_error
                     /\ result.retry_count < 3))]_vars

(* the fourth attempt of pass 1 returned after three transient failures *)
C4_Witness ==
    /\ phase = "pass1"
    /\ rpc = "returned"
    /\ attempt = 3
    /\ started1[i] = 4
    /\ result.jindou_status = REDIRECT_TIMEOUT

(* the merged jindou_success of account a: merged_success['jindou'] while   *)
(* process_single_account runs, the field of its entry in all_results after *)
MergedSucceeded(a) ==
    IF a <= Len(all_results) THEN all_results[a].jindou_success
    ELSE IF phase = "pass1" /\ a = i THEN merged_success
    ELSE FALSE

SuccessFields(r) ==
    <<r.jindou_status, r.initial_jindou, r.final_jindou, r.jindou_reward,
      r.has_jindou_reward>>

(* C5: the merged jindou_success of an account never goes from True to      *)
(* False (so it becomes True at most once), the success fields stored are   *)
(* those of the first successful attempt, and no attempt is started for an  *)
(* account after one of its attempts has succeeded.                         *)
C5_FirstSuccessRetained ==
    /\ [][\A a \in Accounts : MergedSucceeded(a) => MergedSucceeded(a)']_vars
    /\ [][\A a \in Accounts :
            first_success[a] # NoResult => /\ started1'[a] = started1[a]
                                           /\ started2'[a] = started2[a]]_vars
    /\ [](\A j \in 1..Len(all_results) :
            LET a == all_results[j].account_index IN
            all_results[j].jindou_success <=>
                /\ first_success[a] # NoResult
                /\ SuccessFields(all_results[j]) = SuccessFields(first_success[a]))

(* a finished run where account 1 first succeeded in the final retry with a *)
(* reward of 5 and account 2 succeeded on its third attempt of pass 1       *)
C5_Witness ==
    /\ phase = "done"
    /\ Len(all_results) = 2
    /\ all_results[1].jindou_success
    /\ all_results[1].is_final_retry
    /\ all_results[1].jindou_reward = 5
    /\ all_results[2].jindou_success
    /\ all_results[2].retry_count = 2

(* a result has come back from sign_in_account and is about to be merged:  *)
(* into merged_result in pass 1, into the entry of the account in the      *)
(* final retry                                                             *)
AttemptMeetsSuccess ==
    /\ rpc = "returned"
    /\ \/ phase = "pass1" /\ merged_success
       \/ /\ phase = "pass2"
          /\ all_results[failed_accounts[k].index].jindou_success

(* no attempt result, failed or not, is ever merged into a merged result  *)
(* that is already successful: pass 1 leaves its loop with the first       *)
(* success and the final retry selects no successful entry                 *)
NoAttemptMeetsSuccess == ~AttemptMeetsSuccess

(* C7 as stated: every result sign_in_account returns has                   *)
(* jindou_reward = final_jindou - initial_jindou.                           *)
C7_RewardIsDifference ==
    rpc = "returned" =>
        result.jindou_reward = result.final_jindou - result.initial_jindou

(* C8 as stated: no fault leaves sign_in_account; a fault is returned as a  *)
(* result with the exception status, jindou_success = False and             *)
(* password_error = False.                                                  *)
C8_NoFaultLeavesRunner ==
    /\ ~escaped
    /\ phase # "crashed"
    /\ (rpc = "returned" /\ result.jindou_status = EXCEPTION) =>
          (~result.jindou_success /\ ~result.password_error)

(* C9 as stated: whenever sign_in_account is not running, because it        *)
(* returned or because it failed, no browser session it opened is open.     *)
C9_SessionClosedOnEveryExit ==
    rpc \in {"idle", "returned"} => sessions_open = 0

(* C10 as stated: the reported success count is the number of merged        *)
(* results with jindou_success = True and the reported rate is that count   *)
(* over the number of accounts (0 without accounts).                        *)
C10_ReportedSuccessCount ==
    phase \in {"exit", "done"} =>
        LET n == Cardinality({j \in 1..Len(all_results) : all_results[j].jindou_success})
        IN /\ jindou_success_count = n
           /\ jindou_rate = (IF total_accounts = 0 THEN [num |-> 0, den |-> 1]
                             ELSE [num |-> n * 100, den |-> total_accounts])
(* C11: when the final attempt of an account (all of whose pass-1 attempts  *)
(* failed without password error) returns a success, the merge sets the     *)
(* account's entry to jindou_success = True with the status, balances,      *)
(* reward and bonus flag of that attempt, is_final_retry = True and         *)
(* retry_count = the count recorded at the end of pass 1 plus 1, which is   *)
(* max_retries + 1; the finished run still shows it.                        *)
C11_FinalRetrySuccessMerged ==
    /\ [][phase = "pass2" /\ rpc = "returned" /\ result.jindou_success =>
            LET fa == failed_accounts[k]
                m == all_results'[fa.index] IN
            /\ all_results[fa.index].retry_count = max_retries
            /\ m.account_index = result.account_index
            /\ m.jindou_success
            /\ SuccessFields(m) = SuccessFields(result)
            /\ m.is_final_retry
            /\ m.retry_count = all_results[fa.index].retry_count + 1
            /\ m.retry_count > 0]_vars
    /\ [](RunOver =>
            \A j \in 1..Len(all_results) :
                (all_results[j].is_final_retry /\ all_results[j].jindou_success) =>
                    /\ all_results[j].retry_count = max_retries + 1
                    /\ SuccessFields(all_results[j]) =
                           SuccessFields(first_success[all_results[j].account_index])
                    /\ first_success[all_results[j].account_index].is_final_retry)

(* a finished run where account 1 failed its four pass-1 attempts and its   *)
(* final attempt claimed the voucher with the balance unchanged             *)
C11_Witness ==
    /\ phase = "done"
    /\ Len(all_results) >= 1
    /\ started1[1] = 4
    /\ started2[1] = 1
    /\ all_results[1].jindou_success
    /\ all_results[1].is_final_retry
    /\ all_results[1].retry_count = 4
    /\ all_results[1].jindou_status = REWARD_CLAIMED_SUCCESS
    /\ all_results[1].has_jindou_reward
    /\ all_results[1].jindou_reward = 0
(* the process has ended: sys.exit at the end of main, an uncaught          *)
(* exception, or sys.exit(1) of an argument check                           *)
ProcessEnded == phase \in {"done", "crashed", "rejected"}

(* C12 as stated: the exit status is 1 exactly when enable_failure_exit is  *)
(* set and some account ended failed or with a password error; in every     *)
(* other case it is 0.                                                      *)
C12_ExitStatusRule ==
    ProcessEnded =>
        exit_code =
            (IF enable_failure_exit
                /\ \E j \in 1..Len(all_results) :
                       \/ ~all_results[j].jindou_success
                       \/ all_results[j].password_error
             THEN 1 ELSE 0)
(* C13: accounts are handled in order. The first attempt of account a is    *)
(* started by main's loop at position a, when the merged results of         *)
(* accounts 1..a-1, and only those, are in all_results in that order, and   *)
(* no call of sign_in_account is in progress; a final attempt is started    *)
(* only when all_results holds the merged result of every account, and no   *)
(* pass-1 attempt is started after that.                                    *)
C13_AccountsInOrder ==
    /\ [](phase = "pass1" =>
            /\ Len(all_results) = i - 1
            /\ \A a \in Accounts : started1[a] > 0 => a <= i
            /\ \A a \in Accounts : started2[a] = 0)
    /\ [](\A j \in 1..Len(all_results) : all_results[j].account_index = j)
    /\ [][\A a \in Accounts :
            (started1[a] = 0 /\ started1'[a] > 0) =>
                /\ phase = "pass1"
                /\ rpc = "idle"
                /\ i = a
                /\ Len(all_results) = a - 1
                /\ \A b \in 1..(a - 1) : started1[b] > 0]_vars
    /\ [][\A a \in Accounts :
            started2'[a] > started2[a] =>
                /\ phase = "pass2"
                /\ rpc = "idle"
                /\ Len(all_results) = total_accounts
                /\ \A b \in 1..total_accounts : started1[b] > 0]_vars
    /\ [][phase # "pass1" => started1' = started1]_vars

(* the final attempt of account 2 is running after both accounts failed     *)
(* all their pass-1 attempts and account 1 had its final attempt            *)
C13_Witness ==
    /\ phase = "pass2"
    /\ rpc = "load"
    /\ total_accounts = 2
    /\ Len(all_results) = 2
    /\ started1[1] = 4
    /\ started1[2] = 4
    /\ started2[1] = 1
    /\ started2[2] = 1
    /\ result.account_index = 2
(* a call of sign_in_account is between its webdriver.Chrome(...) and the   *)
(* end of its finally clause                                                *)
SessionInUse == rpc \notin {"idle", "open", "returned"}

(* C14: at most one browser session is open in every state; while a call    *)
(* of sign_in_account works with its driver, the one open session is the    *)
(* one that call created; a session is created only when none is open.      *)
C14_OneSessionAtATime ==
    /\ [](sessions_open <= 1)
    /\ [](SessionInUse =>
            /\ sessions_open = 1
            /\ driver = "open"
            /\ session_owner = ThisCall)
    /\ [][sessions_open' > sessions_open =>
            /\ sessions_open = 0
            /\ session_owner = NoCall
            /\ driver \in {"none", "closed"}
            /\ session_owner' = ThisCall]_vars

(* the final attempt of account 2 reads the balance in the session it       *)
(* opened; nine calls before it have opened and closed theirs               *)
C14_Witness ==
    /\ phase = "pass2"
    /\ rpc = "points2"
    /\ started1[1] = 4
    /\ started2[1] = 1
    /\ started1[2] = 4
    /\ session_owner = <<2, 4>>
    /\ sessions_open = 1
(* C15: a merged result in all_results that has password_error = True,     *)
(* set by the loop of pass 1 or by the final retry, has the unknown         *)
(* nickname, the password-error status and jindou_success = False, and no   *)
(* later step changes any of its fields.                                    *)
C15_PasswordErrorResultFrozen ==
    /\ [](\A j \in 1..Len(all_results) :
            all_results[j].password_error =>
                /\ all_results[j].nickname = NICK_UNKNOWN
                /\ all_results[j].jindou_status = PASSWORD_ERROR
                /\ all_results[j].jindou_success = FALSE)
    /\ [][\A j \in 1..Len(all_results) :
            all_results[j].password_error =>
                /\ j <= Len(all_results')
                /\ all_results'[j] = all_results[j]]_vars

(* the summary has read two password-error results: account 1 got it in    *)
(* its final attempt, account 2 in its second attempt of pass 1             *)
C15_Witness ==
    /\ phase = "exit"
    /\ Len(all_results) = 2
    /\ all_results[1].password_error
    /\ all_results[1].is_final_retry
    /\ all_results[1].retry_count = 4
    /\ all_results[2].password_error
    /\ ~all_results[2].is_final_retry
    /\ started1[2] = 2
    /\ password_error_accounts = <<1, 2>>
(* a call of execute_full_process has just ended and sign_in_account is    *)
(* about to run its finally clause                                          *)
TaskEnded == rpc = "finally" /\ task_outcome # "unset"

(* C16 as stated: execute_full_process never raises: whatever the replies   *)
(* to its requests, it returns True or False, and when it returns False     *)
(* the status recorded from sign_status is not the initial unknown one.     *)
C16_TaskNeverRaises ==
    TaskEnded =>
        /\ task_outcome \in {"true", "false"}
        /\ task_outcome = "false" => result.jindou_status # UNKNOWN
(* the sub-calls of a complete call of execute_full_process: the account   *)
(* had signed in already, sign_in gave the gain, the voucher was claimed    *)
AlreadySignedTrace ==
    <<"get_user_info", "get_points", "check_sign_status", "get_points">>

SignedTrace ==
    <<"get_user_info", "get_points", "check_sign_status", "sign_in", "get_points">>

ClaimedTrace ==
    <<"get_user_info", "get_points", "check_sign_status", "sign_in",
      "receive_voucher", "get_points">>

IsPrefix(s, t) ==
    /\ Len(s) <= Len(t)
    /\ \A n \in 1..Len(s) : s[n] = t[n]

Called(c) == \E n \in 1..Len(calls) : calls[n] = c

(* the sub-calls are made in the order get_user_info, get_points,           *)
(* check_sign_status, sign_in, receive_voucher, get_points                  *)
SubCallsInOrder ==
    \E t \in {AlreadySignedTrace, SignedTrace, ClaimedTrace} : IsPrefix(calls, t)

(* a failed get_user_info or a check_sign_status that returned None ends    *)
(* the call with False and without a further sub-call                       *)
EarlyFailureEndsTask ==
    /\ (TaskEnded /\ calls = <<"get_user_info">>) => task_outcome = "false"
    /\ (TaskEnded /\ result.jindou_status = CHECK_FAILED) =>
          /\ task_outcome = "false"
          /\ calls = <<"get_user_info", "get_points", "check_sign_status">>

(* after check_sign_status returned True neither sign_in nor                *)
(* receive_voucher is called                                                *)
NoSignInWhenAlreadySigned ==
    sign_status = ALREADY_SIGNED => (~Called("sign_in") /\ ~Called("receive_voucher"))

(* C17 as stated: the sub-calls are made in that order only; a failed       *)
(* get_user_info or a check returning None ends the call with False and no  *)
(* further sub-call; when the check returned True, sign_in and              *)
(* receive_voucher are not called and the call returns True with the        *)
(* already-signed status.                                                   *)
C17_SubCallOrder ==
    /\ SubCallsInOrder
    /\ EarlyFailureEndsTask
    /\ NoSignInWhenAlreadySigned
    /\ (TaskEnded /\ calls = AlreadySignedTrace) =>
          /\ task_outcome = "true"
          /\ result.jindou_status = ALREADY_SIGNED
(* C18 as stated: when sign_in got a successful envelope with a truthy     *)
(* gainNum, receive_voucher is not called and the call returns True with    *)
(* the signed status and has_reward still False; with the balance 100       *)
(* before and 105 after, the reward is 5 and jindou_success is True.        *)
C18_SignedWithGain ==
    /\ sign_reply = "gain" => (~Called("receive_voucher") /\ voucher_reply = "unset")
    /\ (TaskEnded /\ sign_reply = "gain") =>
          /\ task_outcome = "true"
          /\ result.jindou_success
          /\ result.jindou_status = SIGNED_SUCCESS
          /\ ~result.has_jindou_reward
          /\ (result.initial_jindou = 100 /\ result.final_jindou = 105) =>
                result.jindou_reward = 5

(* C19 as stated: receive_voucher is called exactly when sign_in got a      *)
(* successful envelope without a truthy gainNum (zero, or absent with data  *)
(* missing or null); the call then returns True exactly when the claim      *)
(* succeeded, with the claimed status and has_reward True, and False when   *)
(* the claim failed.                                                        *)
C19_VoucherClaimRule ==
    /\ sign_reply # "unset" =>
          (Called("receive_voucher") <=> sign_reply \in {"nogain", "nulldata"})
    /\ (TaskEnded /\ Called("receive_voucher")) =>
          /\ task_outcome = (IF voucher_reply = "ok" THEN "true" ELSE "false")
          /\ result.jindou_success = (voucher_reply = "ok")
          /\ result.has_jindou_reward
          /\ result.jindou_status = (IF voucher_reply = "ok"
                                     THEN REWARD_CLAIMED_SUCCESS
                                     ELSE REWARD_CLAIM_FAILED)

(* get_points is at the request of an iteration, at the refresh after one  *)
InPointsRequest == rpc \in {"points1", "points2"}

InPointsRefresh == rpc \in {"refresh1", "refresh2"}

(* C20 as stated: one call of get_points sends at most 5 requests, with a   *)
(* refresh after each failed one before the next; it returns the balance    *)
(* of the first successful envelope and 0 when all 5 requests failed; a     *)
(* call that returned 0 this way does not end execute_full_process, which   *)
(* goes on with 0 as the balance.                                           *)
C20_BalanceReadRetries ==
    /\ [](InPointsRequest =>
            /\ points_requests < points_max_retries
            /\ points_refreshes = points_requests
            /\ points_attempt = points_requests)
    /\ [](InPointsRefresh =>
            /\ points_reply = "failed"
            /\ points_refreshes = points_requests - 1)
    /\ [](points_reply \in {"nodata", "nulldata", "ok"} =>
            \/ /\ rpc = "check"
               /\ task_outcome = "unset"
               /\ initial_jindou \in (IF points_reply = "ok" THEN BalanceValues ELSE {0})
            \/ /\ rpc = "finally"
               /\ task_outcome = "true"
               /\ result.final_jindou \in
                      (IF points_reply = "ok" THEN BalanceValues ELSE {0}))
    /\ [][(InPointsRequest /\ points_reply' = "failed") =>
            IF points_requests < points_max_retries - 1
            THEN InPointsRefresh'
            ELSE IF rpc = "points1"
                 THEN /\ rpc' = "check"
                      /\ initial_jindou' = 0
                      /\ task_outcome' = "unset"
                 ELSE /\ rpc' = "finally"
                      /\ task_outcome' = "true"
                      /\ result'.jindou_success
                      /\ result'.final_jindou = 0]_vars
(* execute_full_process is running *)
InTask ==
    rpc \in {"user_info", "points1", "refresh1", "check", "sign", "points2", "refresh2"}

(* C21: execute_full_process runs in a call of sign_in_account only when    *)
(* that call extracted both the token and the secretkey; when either is     *)
(* missing after the extraction, on the logged-in path as on the path       *)
(* after a login, the call returns the extraction-failure status with       *)
(* jindou_success False and no sub-call of the client has been made.        *)
C21_TaskOnlyWithBothCredentials ==
    /\ []((InTask \/ calls # <<>> \/ task_outcome # "unset") =>
            /\ access_token
            /\ secretkey
            /\ result.token_extracted
            /\ result.secretkey_extracted)
    /\ [][(rpc = "sec" /\ rpc' # "sec") =>
            IF access_token' /\ secretkey'
            THEN rpc' = "user_info"
            ELSE /\ rpc' = "finally"
                 /\ path' \in {"active", "login"}
                 /\ result'.jindou_status = TOKEN_EXTRACTION_FAILED
                 /\ result'.jindou_success = FALSE
                 /\ calls' = <<>>
                 /\ task_outcome' = "unset"]_vars
    /\ []((rpc \in {"finally", "returned"}
              /\ result.jindou_status = TOKEN_EXTRACTION_FAILED) =>
            /\ ~(result.token_extracted /\ result.secretkey_extracted)
            /\ result.jindou_success = FALSE
            /\ calls = <<>>
            /\ task_outcome = "unset")

(* after a login the token was found and the secretkey was not: the call    *)
(* is about to return the extraction failure                                *)
C21_Witness ==
    /\ rpc = "finally"
    /\ path = "login"
    /\ access_token
    /\ ~secretkey
    /\ result.token_extracted
    /\ ~result.secretkey_extracted
    /\ result.jindou_status = TOKEN_EXTRACTION_FAILED
    /\ calls = <<>>

(* C22: when check_password_error matches, after the submit click or in    *)
(* the slider block (drag completed, failed or no slider), the call ends   *)
(* with that step: it goes to the finally clause without entering the      *)
(* redirect loop, without a lookup of the token or the secretkey and       *)
(* without a sub-call of the client, and the result it returns has         *)
(* password_error True, jindou_success False and the password-error status *)
C22_PasswordErrorEndsAttempt ==
    /\ [](result.password_error =>
            /\ rpc \in {"finally", "returned"}
            /\ result.jindou_status = PASSWORD_ERROR
            /\ result.jindou_success = FALSE
            /\ result.token_extracted = FALSE
            /\ result.secretkey_extracted = FALSE
            /\ ~access_token
            /\ ~secretkey
            /\ calls = <<>>
            /\ task_outcome = "unset")
    /\ [][(result'.password_error /\ ~result.password_error) =>
            /\ rpc \in {"check1", "challenge"}
            /\ rpc' = "finally"]_vars
    /\ [][(result.password_error /\ rpc = "finally") =>
            (rpc' = "returned" /\ result' = result)]_vars

(* a call on the login path returned the password error *)
C22_Witness ==
    /\ rpc = "returned"
    /\ path = "login"
    /\ result.password_error
    /\ result.jindou_status = PASSWORD_ERROR

(* C23: the redirect loop reads the current URL at most max_wait = 15       *)
(* times; the lookups start with the step of the first read that shows the *)
(* target domain, and after 15 reads that do not show it the call returns  *)
(* the redirect-timeout status with password_error False, no lookup of     *)
(* the token or the secretkey and no sub-call of the client.               *)
C23_RedirectPolling ==
    /\ [](rpc = "poll" => polls <= max_wait)
    /\ [][(rpc = "poll" /\ rpc' = "tok") =>
            (polls < max_wait /\ ~access_token' /\ ~secretkey')]_vars
    /\ [][(rpc = "poll" /\ polls = max_wait) =>
            /\ rpc' = "finally"
            /\ result'.jindou_status = REDIRECT_TIMEOUT
            /\ result'.password_error = FALSE
            /\ result'.jindou_success = FALSE
            /\ result'.token_extracted = FALSE
            /\ result'.secretkey_extracted = FALSE
            /\ ~access_token'
            /\ ~secretkey'
            /\ calls' = <<>>]_vars

(* the merged result of account a: its entry of all_results once          *)
(* process_single_account returned it, merged_result while its loop runs  *)
MergedOf(a) ==
    IF a <= Len(all_results) THEN all_results[a]
    ELSE IF a = i THEN merged_result
    ELSE NoResult

(* the result of a call for account a has returned and is about to be merged *)
FoldsInto(a) ==
    /\ rpc = "returned"
    /\ \/ phase = "pass1" /\ a = i
       \/ phase = "pass2" /\ a = failed_accounts[k].account_index

(* C24: in the merged result of an account token_extracted and              *)
(* secretkey_extracted never go from True to False, in pass 1 or in the    *)
(* final retry; each goes from False to True exactly in the merge of a     *)
(* result that reports it True, and every merge of a result without        *)
(* password_error that reports it True leaves it True, whether or not      *)
(* that result has jindou_success.                                         *)
C24_ExtractedFlagsMonotone ==
    [][\A a \in Accounts :
         /\ MergedOf(a).token_extracted => MergedOf(a)'.token_extracted
         /\ MergedOf(a).secretkey_extracted => MergedOf(a)'.secretkey_extracted
         /\ (FoldsInto(a) /\ ~result.password_error /\ result.token_extracted)
                => MergedOf(a)'.token_extracted
         /\ (FoldsInto(a) /\ ~result.password_error /\ result.secretkey_extracted)
                => MergedOf(a)'.secretkey_extracted
         /\ (~MergedOf(a).token_extracted /\ MergedOf(a)'.token_extracted)
                => (FoldsInto(a) /\ result.token_extracted)
         /\ (~MergedOf(a).secretkey_extracted /\ MergedOf(a)'.secretkey_extracted)
                => (FoldsInto(a) /\ result.secretkey_extracted)]_vars

(* pass 1 is about to merge a failed result that found the secretkey and   *)
(* not the token into a merged result that has the token and not the       *)
(* secretkey                                                               *)
C24_Witness ==
    /\ phase = "pass1"
    /\ rpc = "returned"
    /\ merged_result.token_extracted
    /\ ~merged_result.secretkey_extracted
    /\ ~result.token_extracted
    /\ result.secretkey_extracted
    /\ ~result.jindou_success

SummaryRead == phase \in {"exit", "done"}

Members(seq) == {seq[j] : j \in 1..Len(seq)}

Occurrences(seq, x) == Cardinality({j \in 1..Len(seq) : seq[j] = x})

(* the group memberships of account a in the summary *)
GroupsOf(a) ==
    {g \in {"succeeded", "failed", "password"} :
        \/ g = "succeeded" /\ all_results[a].jindou_success
        \/ g = "failed" /\ a \in Members(failed_list)
        \/ g = "password" /\ a \in Members(password_error_accounts)}

(* C25: once the summary loop has run, failed_accounts and                 *)
(* password_error_accounts have no index in common, and every account is   *)
(* in exactly one of three groups: its merged result has jindou_success,   *)
(* it is in failed_accounts, or it is in password_error_accounts (there    *)
(* once).                                                                  *)
C25_SummaryPartition ==
    SummaryRead =>
        /\ Members(failed_list) \cap Members(password_error_accounts) = {}
        /\ Len(all_results) = total_accounts
        /\ \A a \in 1..total_accounts :
              /\ Cardinality(GroupsOf(a)) = 1
              /\ Occurrences(failed_list, a) <= 1
              /\ Occurrences(password_error_accounts, a) <= 1

(* a finished run with account 1 failed and account 2 password-error *)
C25_Witness ==
    /\ phase = "done"
    /\ total_accounts = 2
    /\ failed_list = <<1>>
    /\ password_error_accounts = <<2>>

(* the pair (jindou_success, jindou_status) that the replies to            *)
(* get_user_info, check_sign_status, sign_in and receive_voucher           *)
(* determine; no balance appears in it                                     *)
TaskVerdict(info, check, sign, voucher) ==
    CASE info = "failed" -> <<FALSE, UNKNOWN>>
      [] info = "nonobject" -> <<FALSE, EXCEPTION>>
      [] info = "ok" /\ check = "nonobject" -> <<FALSE, EXCEPTION>>
      [] info = "ok" /\ check = "unsigned" /\ sign = "nonobject" ->
           <<FALSE, EXCEPTION>>
      [] info = "ok" /\ check = "unsigned" /\ sign = "nogain"
           /\ voucher = "nonobject" -> <<FALSE, EXCEPTION>>
      [] info = "ok" /\ check = "failed" -> <<FALSE, CHECK_FAILED>>
      [] info = "ok" /\ check = "nulldata" -> <<FALSE, EXCEPTION>>
      [] info = "ok" /\ check = "signed" -> <<TRUE, ALREADY_SIGNED>>
      [] info = "ok" /\ check = "unsigned" /\ sign = "failed" ->
           <<FALSE, SIGN_FAILED>>
      [] info = "ok" /\ check = "unsigned" /\ sign = "nulldata" ->
           <<FALSE, EXCEPTION>>
      [] info = "ok" /\ check = "unsigned" /\ sign = "gain" ->
           <<TRUE, SIGNED_SUCCESS>>
      [] info = "ok" /\ check = "unsigned" /\ sign = "nogain" /\ voucher = "ok" ->
           <<TRUE, REWARD_CLAIMED_SUCCESS>>
      [] info = "ok" /\ check = "unsigned" /\ sign = "nogain" /\ voucher = "failed" ->
           <<FALSE, REWARD_CLAIM_FAILED>>
      [] OTHER -> <<FALSE, "undetermined">>

(* C26 as stated: jindou_success and jindou_status of a call's result       *)
(* depend only on the replies to get_user_info, check_sign_status, sign_in  *)
(* and receive_voucher: when execute_full_process has ended they are the    *)
(* pair those replies determine, whatever the two balance requests          *)
(* answered and whatever the sign of jindou_reward.                         *)
C26_VerdictIgnoresBalances ==
    TaskEnded =>
        <<result.jindou_success, result.jindou_status>> =
            TaskVerdict(info_reply, check_reply, sign_reply, voucher_reply)

(* C27 as stated: each lookup (extract_token_from_local_storage, then      *)
(* extract_secretkey_from_devtools) makes at most with_retry_max_retries = *)
(* 5 calls per extraction; the lookup ends with the first call that yields *)
(* a non-empty value, a call that yields no such value is followed by the  *)
(* next call of the same lookup unless it was the fifth, and the fifth     *)
(* call is the last one whatever it yields, the lookup then reporting no   *)
(* value. The secretkey lookup starts from its own first call when the     *)
(* token lookup has ended, with or without a token, and token_extracted    *)
(* and secretkey_extracted are each the truth of the value of their own    *)
(* lookup.                                                                 *)
C27_LookupRetries ==
    /\ [](rpc \in {"tok", "sec"} => tries < with_retry_max_retries)
    /\ [][rpc = "tok" =>
            /\ rpc' \in {"tok", "sec"}
            /\ access_token' => rpc' = "sec"
            /\ tries = with_retry_max_retries - 1 => rpc' = "sec"
            /\ (~access_token' /\ tries < with_retry_max_retries - 1) => rpc' = "tok"
            /\ rpc' = "tok" => (tries' = tries + 1 /\ ~access_token')
            /\ rpc' = "sec" => (tries' = 0 /\ ~secretkey')]_vars
    /\ [][rpc = "sec" =>
            /\ secretkey' => rpc' # "sec"
            /\ tries = with_retry_max_retries - 1 => rpc' # "sec"
            /\ (~secretkey' /\ tries < with_retry_max_retries - 1) => rpc' = "sec"
            /\ rpc' = "sec" => (tries' = tries + 1 /\ ~secretkey')
            /\ access_token' = access_token
            /\ rpc' # "sec" =>
                  /\ result'.token_extracted = access_token
                  /\ result'.secretkey_extracted = secretkey']_vars
    /\ [](rpc \notin {"tok", "sec"} =>
            /\ result.token_extracted = access_token
            /\ result.secretkey_extracted = secretkey)

(* a run over a list of accounts has ended: by sys.exit at the end of main *)
(* or by an uncaught exception                                             *)
RunEnded == phase \in {"done", "crashed"}

(* C28 as stated, its safety content: for every list of accounts and every *)
(* outcome of the calls, pass 1 makes at most max_retries + 1 calls per    *)
(* account and the final retry at most one; a run that has ended has run   *)
(* the summary loop over all_results, once, when no call was in progress   *)
(* and after the last call of either pass; and from the summary loop on    *)
(* no call is started and all_results is not written.                      *)
C28_RunEndsWithOneSummary ==
    /\ [](\A a \in Accounts :
            /\ started1[a] <= max_retries + 1
            /\ started2[a] <= 1)
    /\ [](RunEnded => SummaryRead)
    /\ [](SummaryRead =>
            /\ rpc = "idle"
            /\ sessions_open = 0
            /\ Len(all_results) = total_accounts
            /\ k > Len(failed_accounts))
    /\ [][(phase \in {"summary", "exit", "done"}) =>
            /\ phase' \in {"exit", "done"}
            /\ phase' # phase
            /\ rpc' = "idle"
            /\ started1' = started1
            /\ started2' = started2
            /\ all_results' = all_results]_vars

(* the success flag of the merged result of account a (the local           *)
(* merged_success['jindou'] while process_single_account runs)             *)
MergedSuccessOf(a) ==
    IF a <= Len(all_results) THEN all_results[a].jindou_success
    ELSE IF a = i THEN merged_success
    ELSE FALSE

(* C29: a merged result without success and without password_error has    *)
(* the unknown status, in every state and so when the run is over,         *)
(* whatever the statuses of the failed attempts merged into it; the        *)
(* status of a merged result changes only in the merge of an attempt that  *)
(* succeeded or that reported the password error.                          *)
C29_FailedMergedStatusUnknown ==
    /\ [](\A a \in Accounts :
            (~MergedSuccessOf(a) /\ ~MergedOf(a).password_error)
                => MergedOf(a).jindou_status = UNKNOWN)
    /\ [][\A a \in Accounts :
            MergedOf(a)'.jindou_status # MergedOf(a).jindou_status
                => /\ FoldsInto(a)
                   /\ result.jindou_success \/ result.password_error]_vars

(* a finished run: account 1 failed in all four attempts of pass 1 and in  *)
(* the final retry, and its merged status is the unknown one               *)
C29_Witness ==
    /\ phase = "done"
    /\ Len(all_results) >= 1
    /\ ~all_results[1].jindou_success
    /\ ~all_results[1].password_error
    /\ all_results[1].is_final_retry
    /\ all_results[1].retry_count = max_retries + 1
    /\ all_results[1].token_extracted
    /\ all_results[1].jindou_status = UNKNOWN

SuccessStatuses == {ALREADY_SIGNED, SIGNED_SUCCESS, REWARD_CLAIMED_SUCCESS}

(* C30: in every reachable state a merged result with success has          *)
(* token_extracted and secretkey_extracted True, password_error False and  *)
(* one of the three success statuses.                                      *)
C30_SuccessfulMergedResult ==
    \A a \in Accounts :
        MergedSuccessOf(a) =>
            /\ MergedOf(a).token_extracted
            /\ MergedOf(a).secretkey_extracted
            /\ MergedOf(a).password_error = FALSE
            /\ MergedOf(a).jindou_status \in SuccessStatuses

(* a finished run: account 1 succeeded in the final retry after claiming   *)
(* the voucher, account 2 succeeded in pass 1 as already signed            *)
C30_Witness ==
    /\ phase = "done"
    /\ Len(all_results) = 2
    /\ all_results[1].jindou_success
    /\ all_results[1].is_final_retry
    /\ all_results[1].jindou_status = REWARD_CLAIMED_SUCCESS
    /\ all_results[2].jindou_success
    /\ all_results[2].jindou_status = ALREADY_SIGNED

(* C31: the result of no call of sign_in_account carries a nickname other  *)
(* than the unknown one, so the nickname of the merged result of every     *)
(* account is the unknown one in every reachable state, and the rule that  *)
(* fills an unknown merged nickname from a result (716-717, 807-808)       *)
(* never changes it.                                                       *)
C31_NicknameAlwaysUnknown ==
    /\ result.nickname = NICK_UNKNOWN
    /\ \A a \in Accounts :
          /\ MergedOf(a).nickname = NICK_UNKNOWN
          /\ first_success[a].nickname = NICK_UNKNOWN
          /\ ~(MergedOf(a).nickname = NICK_UNKNOWN /\ result.nickname # NICK_UNKNOWN)
          /\ FillUnknown(MergedOf(a), result).nickname = MergedOf(a).nickname

(* pass 1 is about to merge the result of a call whose profile request and *)
(* task succeeded: its nickname is still the unknown one                   *)
C31_Witness ==
    /\ phase = "pass1"
    /\ rpc = "returned"
    /\ result.jindou_success
    /\ result.token_extracted
    /\ result.nickname = NICK_UNKNOWN
    /\ merged_result.nickname = NICK_UNKNOWN
====
